---- MODULE Spec2Model ----
(***************************************************************************)
(* PropertyBag (Source/DataSources/PropertyBag.js): a registry of named    *)
(* member properties that is itself a Property.  The model keeps, for each *)
(* bag, the _propertyNames array, the accessor installed under each name,  *)
(* the value and the change-subscription the accessor keeps for the name,  *)
(* and the member Property objects the slots refer to.  A bag can be the   *)
(* member of another bag, and the host can put a listener on the event of  *)
(* a bag that calls removeProperty while it is notified.                   *)
(***************************************************************************)
EXTENDS Integers, Sequences, FiniteSets, TLC

\* ------------------------------------------------------------------ bounds
\* Number of operations performed on the bags in one behaviour.
MaxOps == 2
\* Number of member Property objects that can exist (two exist initially,
\* the others are created by clone() or by a createPropertyCallback).
MaxProps == 3

\* ---------------------------------------------------------------- universe
Bags == {"b1", "b2"}
\* "toString" is a name every object inherits from Object.prototype.
Names == {"a", "b", "toString"}
InheritedNames == {"toString"}
\* An omitted propertyName argument.
NoName == "undefined"
PropIds == 1..MaxProps
Times == {0, 1}
Time(t) == <<"time", t>>

\* Values a slot, an argument or a result can hold: <<tag, n>>.
Undefined == <<"undefined", 0>>
InheritedFn == <<"function", 0>>
RawOne == <<"raw", 1>>
RawTwo == <<"raw", 2>>
Raw(n) == <<"raw", n>>
Prop(i) == <<"prop", i>>
\* A PropertyBag held as a member of another one.
BagRef(b) == <<"bag", IF b = "b1" THEN 1 ELSE 2>>
BagOf(v) == IF v[2] = 1 THEN "b1" ELSE "b2"
\* The bags a bag can be given as members.
NestedIn(b) == IF b = "b1" THEN {"b2"} ELSE {}

\* The other argument of equals() when it is not a PropertyBag.
NotABag == "notABag"
\* An omitted createPropertyCallback, and one that wraps a raw value in a
\* new constant Property.
NoCallback == "none"
WrapCallback == "wrap"
RawCallback == "raw"
NoAccessor == "absent"
\* A listener the host puts on the definitionChanged of bag `on`: when it is
\* notified it calls bag.removeProperty(name) if the name is registered.
Listener(on, b, n) == [on |-> on, bag |-> b, name |-> n]
NoListener == Listener("none", "none", NoName)

VARIABLES
    propertyNames,  \* [Bags -> Seq(Names)]      this._propertyNames
    descriptor,     \* [Bags -> [Names -> ..]]   accessor installed under the name
    stored,         \* [Bags -> [Names -> value]] value kept by the accessor
    subscription,   \* [Bags -> [Names -> value]] member the slot's listener is on
    expando,        \* [Bags -> [Names -> value]] plain data property under the name
    listener,       \* the listener the host has put on a bag's event
    nprops,         \* member Property objects 1..nprops exist
    caps,           \* [PropIds -> SUBSET {"merge","clone"}]
    val,            \* [PropIds -> Int]  the member's value
    isConst,        \* [PropIds -> BOOLEAN] the member's isConstant
    last,           \* the operation performed last and how it ended
    ops             \* operations performed so far

heapvars ==
    <<propertyNames, descriptor, stored, subscription, expando, listener,
      nprops, caps, val, isConst>>
vars ==
    <<propertyNames, descriptor, stored, subscription, expando, listener,
      nprops, caps, val, isConst, last, ops>>

\* ----------------------------------------------------------------- helpers
Range(seq) == {seq[i] : i \in 1..Len(seq)}

\* An execution state: the heap, plus what the running operation has done so
\* far: notifications raised per bag, calls of a member's own merge, the
\* error thrown.
Cur ==
    [names |-> propertyNames, desc |-> descriptor, stored |-> stored,
     sub |-> subscription, expando |-> expando, listener |-> listener,
     nprops |-> nprops, caps |-> caps, val |-> val, const |-> isConst,
     raised |-> [b \in Bags |-> 0], mergeLog |-> <<>>, err |-> "none",
     overflow |-> FALSE]

Heap(s) ==
    <<s.names, s.desc, s.stored, s.sub, s.expando, s.listener,
      s.nprops, s.caps, s.val, s.const>>

defined(v) == v # Undefined
definedName(n) == n # NoName
isProp(v) == v[1] = "prop"
isBag(v) == v[1] = "bag"
\* The value has getValue and definitionChanged: a member Property or a
\* PropertyBag.
isMember(v) == isProp(v) \/ isBag(v)

\* Array.prototype.indexOf: 0-based, -1 when absent.
indexOf(seq, x) ==
    IF \E i \in 1..Len(seq) : seq[i] = x
    THEN (CHOOSE i \in 1..Len(seq) : seq[i] = x /\ \A j \in 1..(i-1) : seq[j] # x) - 1
    ELSE -1

\* array[i - 1]: undefined past the end of the array.
elementAt(seq, i) == IF i <= Len(seq) THEN seq[i] ELSE NoName

\* splice(index) without its count: removes every element from index on.
splice_NoCount(seq, index) == SubSeq(seq, 1, index)

\* Array.prototype.splice(index, 1), index 0-based.
splice(seq, index) ==
    [i \in 1..(Len(seq) - 1) |-> IF i <= index THEN seq[i] ELSE seq[i + 1]]

defaultValue(a, b) == IF a = NoCallback THEN b ELSE a

\* The slots whose listener is on the event of bag b: the names under which
\* another bag holds b as a member.
Holders(s, b) == {h \in Bags \X Names : s.sub[h[1]][h[2]] = BagRef(b)}

\* PropertyBag.prototype.hasProperty
hasProperty(s, b, n) == indexOf(s.names[b], n) # -1

RECURSIVE raiseEvent(_, _)
RECURSIVE raiseAll(_, _)
RECURSIVE removeProperty(_, _, _)
\* The listener of each slot of hs runs: it raises the event of its bag.
raiseAll(s, hs) ==
    IF hs = {} THEN s
    ELSE LET h == CHOOSE x \in hs : TRUE
         IN raiseAll(raiseEvent(s, h[1]), hs \ {h})

\* The host's listener runs, when it is on the event of bag b.
notifyListener(s, b) ==
    IF s.listener.on = b /\ hasProperty(s, s.listener.bag, s.listener.name)
    THEN removeProperty(s, s.listener.bag, s.listener.name)
    ELSE s

\* Event.raiseEvent on the bag's _definitionChanged: the event is raised and
\* its listeners run before raiseEvent returns.
raiseEvent(s, b) ==
    raiseAll(notifyListener([s EXCEPT !.raised[b] = @ + 1], b), Holders(s, b))

\* The bags bag o holds or listens to, and the bags reached from a bag
\* through at most k of them.
Held(s, o) ==
    {BagOf(v) : v \in {w \in {s.stored[o][n] : n \in Names} \cup {s.sub[o][n] : n \in Names} :
                         isBag(w)}}
RECURSIVE Reach(_, _, _)
Reach(s, from, k) ==
    IF k = 0 THEN {from}
    ELSE {from} \cup UNION {Reach(s, o, k - 1) : o \in Held(s, from)}
\* Bag o holds bag b, directly or through the bags it holds.
holds(s, o, b) == b \in Reach(s, o, Cardinality(Bags))

\* this[name]: through the accessor when one is installed, else the plain
\* property of the bag, else up the prototype chain.
Get(s, b, n) ==
    IF ~definedName(n) THEN Undefined
    ELSE IF s.desc[b][n] # NoAccessor THEN s.stored[b][n]
    ELSE IF defined(s.expando[b][n]) THEN s.expando[b][n]
    ELSE IF n \in InheritedNames THEN InheritedFn
    ELSE Undefined

\* A new member Property object (the model stops where MaxProps exist), and
\* the reference to it.
NewProp(s, c, v, k) ==
    IF s.nprops < MaxProps
    THEN [s EXCEPT !.nprops = @ + 1, !.caps[s.nprops + 1] = c,
                   !.val[s.nprops + 1] = v, !.const[s.nprops + 1] = k]
    ELSE [s EXCEPT !.overflow = TRUE]
NewRef(s) == Prop(IF s.nprops < MaxProps THEN s.nprops + 1 ELSE MaxProps)

\* The accessor's setter keeping the subscription of the value it replaces.
SetSlot_KeepsOldSubscription(s, b, n, value) ==
    LET wrap == defined(value) /\ ~isMember(value) /\ s.desc[b][n] = WrapCallback
        s2 == IF wrap THEN NewProp(s, {}, value[2], TRUE) ELSE s
        v2 == IF wrap THEN NewRef(s) ELSE value
    IN IF isBag(value) /\ holds(s, BagOf(value), b) THEN [s EXCEPT !.overflow = TRUE]
       ELSE IF s2.stored[b][n] # v2
       THEN raiseEvent([s2 EXCEPT !.stored[b][n] = v2], b)
       ELSE s2

\* this[name] = value through the accessor createPropertyDescriptor installs:
\* detach the slot's subscription, wrap a value that is no Property with the
\* slot's callback, store it and notify when it differs, subscribe to it.
\* (The model stops where a bag would become a member of itself.)
SetSlot(s, b, n, value) ==
    LET wrap == defined(value) /\ ~isMember(value) /\ s.desc[b][n] = WrapCallback
        s1 == [s EXCEPT !.sub[b][n] = Undefined]
        s2 == IF wrap THEN NewProp(s1, {}, value[2], TRUE) ELSE s1
        v2 == IF wrap THEN NewRef(s1) ELSE value
        s3 == IF s2.stored[b][n] # v2
              THEN raiseEvent([s2 EXCEPT !.stored[b][n] = v2], b)
              ELSE s2
    IN IF isBag(value) /\ holds(s, BagOf(value), b) THEN [s EXCEPT !.overflow = TRUE]
       ELSE IF defined(v2) /\ isMember(v2) THEN [s3 EXCEPT !.sub[b][n] = v2]
       ELSE s3

\* addProperty without its check of the registered names.
addProperty_NoDuplicateCheck(s, b, n, value, cb) ==
    IF ~definedName(n) THEN [s EXCEPT !.err = "InvalidArgument"]
    ELSE LET s1 == [s EXCEPT !.names[b] = Append(@, n),
                             !.desc[b][n] = defaultValue(cb, RawCallback),
                             !.expando[b][n] = Undefined]
             s2 == IF defined(value) THEN SetSlot(s1, b, n, value) ELSE s1
         IN raiseEvent(s2, b)

\* addProperty without the notification it ends with.
addProperty_NoFinalRaise(s, b, n, value, cb) ==
    IF ~definedName(n) THEN [s EXCEPT !.err = "InvalidArgument"]
    ELSE IF indexOf(s.names[b], n) # -1 THEN [s EXCEPT !.err = "DuplicateName"]
    ELSE LET s1 == [s EXCEPT !.names[b] = Append(@, n),
                             !.desc[b][n] = defaultValue(cb, RawCallback),
                             !.expando[b][n] = Undefined]
         IN IF defined(value) THEN SetSlot(s1, b, n, value) ELSE s1

\* addProperty writing the initial value into the storage of the slot
\* instead of assigning it through the accessor.
addProperty_BypassesSetter(s, b, n, value, cb) ==
    IF ~definedName(n) THEN [s EXCEPT !.err = "InvalidArgument"]
    ELSE IF indexOf(s.names[b], n) # -1 THEN [s EXCEPT !.err = "DuplicateName"]
    ELSE LET s1 == [s EXCEPT !.names[b] = Append(@, n),
                             !.desc[b][n] = defaultValue(cb, RawCallback),
                             !.expando[b][n] = Undefined]
             s2 == IF defined(value) THEN [s1 EXCEPT !.stored[b][n] = value] ELSE s1
         IN raiseEvent(s2, b)

\* PropertyBag.prototype.addProperty
addProperty(s, b, n, value, cb) ==
    IF ~definedName(n) THEN [s EXCEPT !.err = "InvalidArgument"]
    ELSE IF indexOf(s.names[b], n) # -1 THEN [s EXCEPT !.err = "DuplicateName"]
    ELSE LET s1 == [s EXCEPT !.names[b] = Append(@, n),
                             !.desc[b][n] = defaultValue(cb, RawCallback),
                             !.expando[b][n] = Undefined]
             s2 == IF defined(value) THEN SetSlot(s1, b, n, value) ELSE s1
         IN raiseEvent(s2, b)

\* removeProperty without its check of the index: splice(-1, 1) removes the
\* last name.
removeProperty_NoIndexCheck(s, b, n) ==
    LET index == indexOf(s.names[b], n)
    IN IF ~definedName(n) THEN [s EXCEPT !.err = "InvalidArgument"]
       ELSE raiseEvent([s EXCEPT !.names[b] = SubSeq(@, 1, IF index = -1 THEN Len(@) - 1 ELSE index)
                                               \o SubSeq(@, (IF index = -1 THEN Len(@) ELSE index + 1) + 1, Len(@)),
                                 !.desc[b][n] = NoAccessor], b)

\* removeProperty without the notification it ends with.
removeProperty_NoRaise(s, b, n) ==
    LET index == indexOf(s.names[b], n)
    IN IF ~definedName(n) THEN [s EXCEPT !.err = "InvalidArgument"]
       ELSE IF index = -1 THEN [s EXCEPT !.err = "UnknownName"]
       ELSE [s EXCEPT !.names[b] = splice(@, index), !.desc[b][n] = NoAccessor]

\* PropertyBag.prototype.removeProperty
removeProperty(s, b, n) ==
    LET index == indexOf(s.names[b], n)
    IN IF ~definedName(n) THEN [s EXCEPT !.err = "InvalidArgument"]
       ELSE IF index = -1 THEN [s EXCEPT !.err = "UnknownName"]
       ELSE raiseEvent([s EXCEPT !.names[b] = splice(@, index),
                                 !.desc[b][n] = NoAccessor], b)

RECURSIVE getValue(_, _, _)
RECURSIVE isConstant(_, _)
RECURSIVE propertiesEqual(_, _, _)

\* Property.getValueOrUndefined: an unset slot evaluates to undefined, a raw
\* value to itself, a member to its value at the time, a nested bag to the
\* object its own getValue returns.
getValueOrUndefined(s, v, t) ==
    IF ~defined(v) THEN Undefined
    ELSE IF isProp(v)
         THEN (IF s.const[v[2]] THEN Raw(s.val[v[2]]) ELSE Raw(s.val[v[2]] + t[2]))
    ELSE IF isBag(v) THEN <<"object", getValue(s, BagOf(v), t).value>>
    ELSE v

\* Property.isConstant: an unset slot and a raw value are constant, a nested
\* bag answers with its own isConstant.
PropertyIsConstant(s, v) ==
    IF defined(v) /\ isProp(v) THEN s.const[v[2]]
    ELSE IF isBag(v) THEN isConstant(s, BagOf(v))
    ELSE TRUE

\* Property.equals: undefined equals undefined only; members compare by their
\* own equals, a nested bag by PropertyBag.prototype.equals.
PropertyEquals(s, l, r) ==
    \/ l = r
    \/ /\ defined(l) /\ defined(r) /\ isProp(l) /\ isProp(r)
       /\ s.val[l[2]] = s.val[r[2]]
       /\ s.const[l[2]] = s.const[r[2]]
       /\ s.caps[l[2]] = s.caps[r[2]]
    \/ isBag(l) /\ isBag(r) /\ propertiesEqual(s, BagOf(l), BagOf(r))

\* isConstant with its loop starting at the second name.
isConstant_SkipFirst(s, b) ==
    \A i \in 2..Len(s.names[b]) : PropertyIsConstant(s, Get(s, b, s.names[b][i]))

\* The getter of isConstant.
isConstant(s, b) ==
    \A i \in 1..Len(s.names[b]) : PropertyIsConstant(s, Get(s, b, s.names[b][i]))

\* getValue leaving out the names whose slot is unset.
getValue_SkipUnset(s, b, t) ==
    IF ~defined(t) THEN [err |-> "InvalidArgument", value |-> <<>>]
    ELSE [err |-> "none",
          value |-> [n \in {m \in Range(s.names[b]) : defined(Get(s, b, m))} |->
                        getValueOrUndefined(s, Get(s, b, n), t)]]

\* PropertyBag.prototype.getValue: the result object, or the error thrown.
getValue(s, b, t) ==
    IF ~defined(t) THEN [err |-> "InvalidArgument", value |-> <<>>]
    ELSE [err |-> "none",
          value |-> [n \in Range(s.names[b]) |-> getValueOrUndefined(s, Get(s, b, n), t)]]

\* ------------------------------------------------------------------- merge
\* A merge source: a PropertyBag, a plain object (its keys in Object.keys
\* order and its values), or an omitted argument.
BagSource(b) == [kind |-> "bag", bag |-> b, keys |-> <<>>, vals |-> [n \in Names |-> Undefined]]
PlainSource(k, v) == [kind |-> "plain", bag |-> "none", keys |-> k, vals |-> v]
NoSource == [kind |-> "undefined", bag |-> "none", keys |-> <<>>, vals |-> [n \in Names |-> Undefined]]

sourcePropertyNames(s, source) ==
    IF source.kind = "bag" THEN s.names[source.bag] ELSE source.keys

sourceGet(s, source, n) ==
    IF ~definedName(n) THEN Undefined
    ELSE IF source.kind = "bag" THEN Get(s, source.bag, n)
    ELSE source.vals[n]

\* this[name] = value: through the accessor when one is installed, else it
\* makes a plain property of the bag.
assign(s, b, n, value) ==
    IF s.desc[b][n] # NoAccessor THEN SetSlot(s, b, n, value)
    ELSE [s EXCEPT !.expando[b][n] = value]

hasMerge(s, v) == isBag(v) \/ (isProp(v) /\ "merge" \in s.caps[v[2]])
hasClone(s, v) == isProp(v) /\ "clone" \in s.caps[v[2]]

RECURSIVE merge(_, _, _, _)

\* targetProperty.merge(sourceProperty), called for name: the member's own
\* merge, which the execution state logs.  The merge of a nested bag is
\* PropertyBag.prototype.merge (the model stops where its source is not a
\* bag); the log keeps the calls merge makes itself.
memberMerge(s, name, target, sourceProperty) ==
    LET s1 == [s EXCEPT !.mergeLog = Append(@, <<name, target, sourceProperty>>)]
    IN IF ~isBag(target) THEN s1
       ELSE IF ~isBag(sourceProperty) THEN [s1 EXCEPT !.overflow = TRUE]
       ELSE [merge(s1, BagOf(target), BagSource(BagOf(sourceProperty)), NoCallback)
                EXCEPT !.mergeLog = s1.mergeLog]

\* sourceProperty.clone(): a new member with the same content.
cloneProp(s, v) == NewProp(s, s.caps[v[2]], s.val[v[2]], s.const[v[2]])

\* The assignment of merge that never clones the source value.
mergeAssign_NeverClones(s, b, name, sourceProperty) ==
    assign(s, b, name, sourceProperty)

\* The assignment merge makes to an empty target slot.
mergeAssign(s, b, name, sourceProperty) ==
    IF hasMerge(s, sourceProperty) /\ hasClone(s, sourceProperty)
    THEN assign(cloneProp(s, sourceProperty), b, name, NewRef(s))
    ELSE assign(s, b, name, sourceProperty)

\* The names merge auto-registers on the target.
mergeMustAdd(s, b, name, targetProperty) ==
    ~defined(targetProperty) /\ indexOf(s.names[b], name) = -1

\* One iteration of merge's loop that assigns the source value over a target
\* value that has no merge of its own.
mergeName_Overwrites(s, b, source, cb, name) ==
    LET targetProperty == Get(s, b, name)
        sourceProperty == sourceGet(s, source, name)
        s1 == IF mergeMustAdd(s, b, name, targetProperty)
              THEN addProperty(s, b, name, Undefined, cb)
              ELSE s
    IN IF defined(sourceProperty)
       THEN IF defined(targetProperty) /\ hasMerge(s1, targetProperty)
            THEN memberMerge(s1, name, targetProperty, sourceProperty)
            ELSE IF s1.desc[b][name] # NoAccessor
                 THEN mergeAssign(s1, b, name, sourceProperty)
                 ELSE s1
       ELSE s1

\* One iteration of merge's loop.
mergeName(s, b, source, cb, name) ==
    LET targetProperty == Get(s, b, name)
        sourceProperty == sourceGet(s, source, name)
        s1 == IF mergeMustAdd(s, b, name, targetProperty)
              THEN addProperty(s, b, name, Undefined, cb)
              ELSE s
    IN IF defined(sourceProperty)
       THEN IF defined(targetProperty)
            THEN (IF hasMerge(s1, targetProperty)
                  THEN memberMerge(s1, name, targetProperty, sourceProperty)
                  ELSE s1)
            ELSE mergeAssign(s1, b, name, sourceProperty)
       ELSE s1

RECURSIVE mergeLoop(_, _, _, _, _, _)
mergeLoop(s, b, source, cb, i, len) ==
    IF i > len \/ s.err # "none" THEN s
    ELSE mergeLoop(mergeName(s, b, source, cb, elementAt(sourcePropertyNames(s, source), i)),
                   b, source, cb, i + 1, len)

\* PropertyBag.prototype.merge
merge(s, b, source, cb) ==
    IF source.kind = "undefined" THEN [s EXCEPT !.err = "InvalidArgument"]
    ELSE mergeLoop(s, b, source, cb, 1, Len(sourcePropertyNames(s, source)))

\* propertiesEqual without its comparison of the lengths.
propertiesEqual_NoLength(s, a, b) ==
    \A aIndex \in 1..Len(s.names[a]) :
        LET name == s.names[a][aIndex]
        IN /\ indexOf(s.names[b], name) # -1
           /\ PropertyEquals(s, Get(s, a, name), Get(s, b, name))

\* ------------------------------------------------------------------ equals
propertiesEqual(s, a, b) ==
    /\ Len(s.names[a]) = Len(s.names[b])
    /\ \A aIndex \in 1..Len(s.names[a]) :
          LET name == s.names[a][aIndex]
          IN /\ indexOf(s.names[b], name) # -1
             /\ PropertyEquals(s, Get(s, a, name), Get(s, b, name))

\* PropertyBag.prototype.equals
equals(s, b, other) ==
    b = other \/ (other \in Bags /\ propertiesEqual(s, b, other))

\* ----------------------------------------------------------- member events
\* A member raises its own definitionChanged: every listener a slot has put
\* on it raises the bag's event.
Listeners(s, b, p) == {n \in Names : s.sub[b][n] = Prop(p)}

memberChanged(s, p) ==
    raiseAll(s, {h \in Bags \X Names : s.sub[h[1]][h[2]] = Prop(p)})

\* A member's isConstant changes; the member raises no event for it.
flipConstant(s, p) == [s EXCEPT !.const[p] = ~@]

\* ------------------------------------------------------------------ inputs
NameIn == Names \cup {NoName}
CallbackIn == {NoCallback, WrapCallback}
TimeIn == {Time(t) : t \in Times} \cup {Undefined}
\* The values the host gives: nothing, a raw value, one of its two members.
ValueIn == {Undefined, RawOne, Prop(1), Prop(2)}
\* The listeners of the host: on the event of a bag, removing a name of it.
ListenerIn == {Listener(b, b, "a") : b \in Bags}
\* The bags given to bag b as a member.
BagValueIn(b) == {BagRef(o) : o \in NestedIn(b)}
\* The value and the createPropertyCallback given to addProperty: a callback
\* comes with the values it can be applied to.
AddIn(b) ==
    ((ValueIn \cup BagValueIn(b)) \X {NoCallback})
        \cup ({Undefined, RawOne} \X {WrapCallback})

\* Plain objects given to merge and to the constructor.
NoVals == [n \in Names |-> Undefined]
PlainRaw == PlainSource(<<"a", "b">>, [NoVals EXCEPT !["a"] = RawOne, !["b"] = RawTwo])
PlainRawReversed == PlainSource(<<"b", "a">>, [NoVals EXCEPT !["a"] = RawOne, !["b"] = RawTwo])
PlainMember == PlainSource(<<"a", "b">>, [NoVals EXCEPT !["a"] = Prop(1), !["b"] = RawTwo])
PlainMemberReversed == PlainSource(<<"b", "a">>, [NoVals EXCEPT !["a"] = Prop(1), !["b"] = RawTwo])
PlainClonable == PlainSource(<<"a">>, [NoVals EXCEPT !["a"] = Prop(2)])
PlainUndefined == PlainSource(<<"a", "b">>, [NoVals EXCEPT !["b"] = RawOne])
PlainInherited == PlainSource(<<"toString">>, [NoVals EXCEPT !["toString"] = RawOne])
PlainIn ==
    {PlainRaw, PlainRawReversed, PlainMember, PlainClonable, PlainUndefined, PlainInherited}
SourceIn == {BagSource(b) : b \in Bags} \cup PlainIn \cup {NoSource}

\* ------------------------------------------------------------------- state
\* The heap before any bag exists: two members made by the host, a constant
\* one without merge and clone and a time-varying one with both.
Empty ==
    [names |-> [b \in Bags |-> <<>>],
     desc |-> [b \in Bags |-> [n \in Names |-> NoAccessor]],
     stored |-> [b \in Bags |-> [n \in Names |-> Undefined]],
     sub |-> [b \in Bags |-> [n \in Names |-> Undefined]],
     expando |-> [b \in Bags |-> [n \in Names |-> Undefined]],
     listener |-> NoListener,
     nprops |-> 2,
     caps |-> [i \in PropIds |-> IF i = 2 THEN {"merge", "clone"} ELSE {}],
     val |-> [i \in PropIds |-> IF i = 2 THEN 2 ELSE 1],
     const |-> [i \in PropIds |-> i # 2],
     raised |-> [b \in Bags |-> 0], mergeLog |-> <<>>, err |-> "none",
     overflow |-> FALSE]

\* new PropertyBag(value, createPropertyCallback)
construct(s, b, value, cb) ==
    IF value.kind # "undefined" THEN merge(s, b, value, cb) ELSE s

\* b1 = new PropertyBag(v[1]); b2 = new PropertyBag(v[2]): both without a
\* value, or both with a plain object.
ConstructIn == {<<NoSource, NoSource>>, <<PlainMember, PlainMemberReversed>>}

Init ==
    \E v \in ConstructIn :
        LET s == construct(construct(Empty, "b1", v[1], NoCallback), "b2", v[2], NoCallback)
        IN /\ propertyNames = s.names
           /\ descriptor = s.desc
           /\ stored = s.stored
           /\ subscription = s.sub
           /\ expando = s.expando
           /\ listener = s.listener
           /\ nprops = s.nprops
           /\ caps = s.caps
           /\ val = s.val
           /\ isConst = s.const
           /\ last = [op |-> "new", bag |-> "none", name |-> NoName, err |-> "none",
                       raised |-> s.raised, merges |-> 0, changed |-> TRUE]
           /\ ops = 0

\* A behaviour goes on after the operations that changed the heap; an
\* operation that left it as it was (a query, a rejected call) is the last
\* one, since what follows it is what follows the state before it.
Alive == last.changed

\* The operation op(b, n) ends in execution state s: its heap becomes the
\* state, and last records how the operation ended.
Commit(s, op, b, n) ==
    /\ ops < MaxOps
    /\ Alive
    /\ ~s.overflow
    /\ propertyNames' = s.names
    /\ descriptor' = s.desc
    /\ stored' = s.stored
    /\ subscription' = s.sub
    /\ expando' = s.expando
    /\ listener' = s.listener
    /\ nprops' = s.nprops
    /\ caps' = s.caps
    /\ val' = s.val
    /\ isConst' = s.const
    /\ last' = [op |-> op, bag |-> b, name |-> n, err |-> s.err,
                raised |-> s.raised, merges |-> Len(s.mergeLog),
                changed |-> Heap(s) # Heap(Cur)]
    /\ ops' = ops + 1

DoAddProperty(b, n, v, cb) ==
    Commit(addProperty(Cur, b, n, v, cb), "addProperty", b, n)

DoRemoveProperty(b, n) ==
    Commit(removeProperty(Cur, b, n), "removeProperty", b, n)

\* bag[name] = value on a registered name.
DoAssign(b, n, v) ==
    /\ descriptor[b][n] # NoAccessor
    /\ Commit(SetSlot(Cur, b, n, v), "assign", b, n)

DoMerge(b, source, cb) ==
    Commit(merge(Cur, b, source, cb), "merge", b, NoName)

\* getValue writing the evaluated value back into the slot.
DoGetValue_WritesSlots(b, t) ==
    Commit([Cur EXCEPT !.err = getValue(Cur, b, t).err,
                       !.stored[b] = [n \in Names |->
                           IF Cur.desc[b][n] # NoAccessor /\ defined(t)
                           THEN getValueOrUndefined(Cur, Get(Cur, b, n), t)
                           ELSE Cur.stored[b][n]]],
           "getValue", b, NoName)

DoGetValue(b, t) ==
    Commit([Cur EXCEPT !.err = getValue(Cur, b, t).err], "getValue", b, NoName)

DoHasProperty(b, n) ==
    Commit(Cur, "hasProperty", b, NoName)

DoEquals(b, other) ==
    Commit(Cur, "equals", b, NoName)

DoIsConstant(b) ==
    Commit(Cur, "isConstant", b, NoName)

DoMemberChanged(p) ==
    Commit(memberChanged(Cur, p), "memberChanged", "none", NoName)

DoFlipConstant(p) ==
    Commit(flipConstant(Cur, p), "flipConstant", "none", NoName)

\* bag.definitionChanged.addEventListener(l); the host has one listener.
DoAddEventListener(l) ==
    /\ listener = NoListener
    /\ Commit([Cur EXCEPT !.listener = l], "addEventListener", l.on, l.name)

Next ==
    \/ \E b \in Bags, n \in Names : \E a \in AddIn(b) : DoAddProperty(b, n, a[1], a[2])
    \/ \E b \in Bags : DoAddProperty(b, NoName, Undefined, NoCallback)
    \/ \E b \in Bags, n \in NameIn : DoRemoveProperty(b, n)
    \/ \E b \in Bags, n \in Names : \E v \in ValueIn \cup BagValueIn(b) : DoAssign(b, n, v)
    \/ \E b \in Bags, source \in SourceIn, cb \in CallbackIn : DoMerge(b, source, cb)
    \/ \E b \in Bags, t \in TimeIn : DoGetValue(b, t)
    \/ \E b \in Bags, n \in Names : DoHasProperty(b, n)
    \/ \E b \in Bags, other \in Bags \cup {NotABag} : DoEquals(b, other)
    \/ \E b \in Bags : DoIsConstant(b)
    \/ \E p \in 1..nprops : DoMemberChanged(p)
    \/ \E p \in 1..nprops : DoFlipConstant(p)
    \/ \E l \in ListenerIn : DoAddEventListener(l)

Spec == Init /\ [][Next]_vars

\* ================================================================== claims
Zero == [b \in Bags |-> 0]
\* Another operation can follow in this behaviour, and it runs without a
\* listener of the host that changes the bags while it is notified.
Within == ops < MaxOps /\ Alive /\ listener = NoListener
Registered(b) == Range(propertyNames[b])
\* The operation left the heap and the notifications of s as they were.
Untouched(s, r) == Heap(r) = Heap(s) /\ r.raised = s.raised

\* C1: addProperty without a name fails with InvalidArgument and with a
\* registered name fails with DuplicateName, in every reachable state; the
\* failing call leaves the names, the slots and the subscriptions as they
\* were and raises no notification.
C1_AddPropertyRejects ==
    Within => \A b \in Bags, v \in ValueIn, cb \in CallbackIn :
        /\ LET r == addProperty(Cur, b, NoName, v, cb)
           IN r.err = "InvalidArgument" /\ Untouched(Cur, r)
        /\ \A n \in Registered(b) :
              LET r == addProperty(Cur, b, n, v, cb)
              IN r.err = "DuplicateName" /\ Untouched(Cur, r)

\* A duplicate registration was rejected on a bag that holds a subscribed slot.
C1_Witness ==
    /\ last.op = "addProperty" /\ last.err = "DuplicateName"
    /\ last.raised = Zero
    /\ \E n \in Names : subscription[last.bag][n] # Undefined

\* C2: removeProperty of a name that is not registered fails with
\* UnknownName in every reachable state, also for a name registered and
\* unregistered before; the failing call changes nothing and raises nothing.
C2_RemovePropertyRejects ==
    Within => \A b \in Bags : \A n \in Names \ Registered(b) :
        LET r == removeProperty(Cur, b, n)
        IN r.err = "UnknownName" /\ Untouched(Cur, r)

\* A second removal of a name that was registered with a value was rejected.
C2_Witness ==
    /\ last.op = "removeProperty" /\ last.err = "UnknownName"
    /\ last.raised = Zero
    /\ last.name \in Names
    /\ stored[last.bag][last.name] # Undefined
    /\ propertyNames[last.bag] # <<>>

\* C3: a successful removeProperty(n) removes exactly n: n is no longer
\* registered, every other registered name stays registered with the same
\* value, and the remaining names keep their order.
C3_RemoveExactlyOne ==
    Within => \A b \in Bags : \A n \in Registered(b) :
        LET r == removeProperty(Cur, b, n)
        IN /\ r.err = "none"
           /\ ~hasProperty(r, b, n)
           /\ \A m \in Registered(b) \ {n} :
                 hasProperty(r, b, m) /\ Get(r, b, m) = Get(Cur, b, m)
           /\ r.names[b] = SelectSeq(propertyNames[b], LAMBDA x : x # n)

\* The first of three registered names was removed; two remain, in order.
C3_Witness ==
    /\ last.op = "removeProperty" /\ last.err = "none" /\ last.name = "a"
    /\ propertyNames[last.bag] = <<"b", "toString">>
    /\ stored[last.bag]["b"] = RawTwo

\* The value a slot value has at time t, stated from the member's fields;
\* for a nested bag, the object mapping its names to their values.
RECURSIVE ValueAt(_, _)
ValueAt(v, t) ==
    IF v = Undefined THEN Undefined
    ELSE IF v[1] = "raw" THEN v
    ELSE IF v[1] = "bag"
         THEN <<"object", [m \in Registered(BagOf(v)) |-> ValueAt(stored[BagOf(v)][m], t)]>>
    ELSE IF isConst[v[2]] THEN Raw(val[v[2]]) ELSE Raw(val[v[2]] + t)

\* C4: in every reachable state and for every time t, getValue(t) returns a
\* mapping whose keys are exactly the registered names, each entry the value
\* of the slot's member at t, undefined for an unset slot; the empty bag
\* gives the empty mapping.
C4_GetValueMapsRegisteredNames ==
    \A b \in Bags, t \in Times :
        LET r == getValue(Cur, b, Time(t))
        IN /\ r.err = "none"
           /\ DOMAIN r.value = Registered(b)
           /\ \A n \in Registered(b) : r.value[n] = ValueAt(stored[b][n], t)
           /\ (propertyNames[b] = <<>> => r.value = <<>>)

\* getValue ran on a bag with an unset slot, a raw value and a member.
C4_Witness ==
    /\ last.op = "getValue" /\ last.err = "none"
    /\ \E n \in Registered(last.bag) : stored[last.bag][n] = Undefined
    /\ \E n \in Registered(last.bag) : isProp(stored[last.bag][n])
    /\ \E n \in Registered(last.bag) : stored[last.bag][n] = RawTwo

\* C5: getValue, hasProperty, equals and isConstant are queries: a step of
\* one of them leaves names, slots, subscriptions and members as they were
\* and raises no notification.
C5_QueriesArePure ==
    [][last'.op \in {"getValue", "hasProperty", "equals", "isConstant"}
         => UNCHANGED heapvars /\ last'.raised = Zero]_vars

\* getValue ran, without error, on a bag that holds a subscribed member.
C5_Witness ==
    /\ last.op = "getValue" /\ last.err = "none" /\ last.raised = Zero
    /\ \E n \in Registered(last.bag) : subscription[last.bag][n] # Undefined

\* Whether a slot value reports constant, stated from the member's fields;
\* a nested bag does when each of its registered values does.
RECURSIVE ConstantValue(_, _)
ConstantValue(s, v) ==
    IF v[1] = "prop" THEN s.const[v[2]]
    ELSE IF v[1] = "bag"
         THEN \A m \in Range(s.names[BagOf(v)]) : ConstantValue(s, s.stored[BagOf(v)][m])
    ELSE TRUE
AllConstant(s, b) == \A n \in Range(s.names[b]) : ConstantValue(s, s.stored[b][n])
NonConstantProps == {i \in 1..nprops : ~isConst[i]}

\* C6: in every reachable state isConstant is true iff every registered
\* member reports constant (unset slots and the empty bag count as
\* constant); it is recomputed on each read: false right after a
\* non-constant member is registered or assigned, true again once the only
\* non-constant member is unregistered or replaced by a constant value, and
\* it follows a member whose constancy flips without notification.
C6_IsConstantTracksMembers ==
    \A b \in Bags :
        /\ isConstant(Cur, b) <=> AllConstant(Cur, b)
        /\ (propertyNames[b] = <<>> => isConstant(Cur, b))
        /\ Within => \A p \in NonConstantProps :
              /\ \A n \in Names \ Registered(b), cb \in CallbackIn :
                    ~isConstant(addProperty(Cur, b, n, Prop(p), cb), b)
              /\ \A n \in Registered(b) :
                    ~isConstant(SetSlot(Cur, b, n, Prop(p)), b)
        /\ Within => \A n \in Registered(b) :
              (\A m \in Registered(b) \ {n} : ConstantValue(Cur, stored[b][m]))
                 => /\ isConstant(removeProperty(Cur, b, n), b)
                    /\ isConstant(SetSlot(Cur, b, n, Undefined), b)
                    /\ \A p \in (1..nprops) \ NonConstantProps :
                          isConstant(SetSlot(Cur, b, n, Prop(p)), b)
        /\ Within => \A p \in 1..nprops :
              LET r == flipConstant(Cur, p)
              IN /\ r.raised = Zero
                 /\ isConstant(r, b) <=> AllConstant(r, b)

\* A member registered second flipped to non-constant without raising an
\* event, and the bag that holds it is no longer constant.
C6_Witness ==
    /\ last.op = "flipConstant" /\ last.raised = Zero
    /\ \E b \in Bags :
          /\ Len(propertyNames[b]) >= 2
          /\ ConstantValue(Cur, stored[b][propertyNames[b][1]])
          /\ ~ConstantValue(Cur, stored[b][propertyNames[b][2]])
          /\ ~isConstant(Cur, b)

\* What an execution state looks like when the next operation starts.
Fresh(s) == [s EXCEPT !.raised = Zero, !.mergeLog = <<>>]
MergeIn == SourceIn \ {NoSource}
SourceNames(source) == Range(sourcePropertyNames(Cur, source))

\* C7: after merge(source), for a PropertyBag or a plain object, every name
\* of the source is registered on the target and every target slot that was
\* empty and whose source value is defined holds a value; merging {a: 1,
\* b: 2} into an empty bag makes getValue yield {a: 1, b: 2}.
C7_MergeRegistersEverySourceName ==
    Within => \A b \in Bags, source \in MergeIn, cb \in CallbackIn :
        LET r == merge(Cur, b, source, cb)
        IN ~r.overflow =>
           /\ r.err = "none"
           /\ \A n \in SourceNames(source) :
                 /\ hasProperty(r, b, n)
                 /\ (~defined(Get(Cur, b, n)) /\ defined(sourceGet(Cur, source, n)))
                       => defined(Get(r, b, n))
           /\ (source = PlainRaw /\ cb = NoCallback /\ propertyNames[b] = <<>>
                 /\ \A n \in Names : stored[b][n] = Undefined)
                 => getValue(r, b, Time(0)).value = [n \in {"a", "b"} |-> source.vals[n]]

\* The calls of a member's own merge that merge made for name n.
MergeCalls(r, n) == {i \in 1..Len(r.mergeLog) : r.mergeLog[i][1] = n}
SourceValue(source, n) ==
    IF n \in SourceNames(source) THEN sourceGet(Cur, source, n) ELSE Undefined

\* C8: merge never replaces or clears a slot that held a value: the slot
\* holds the same instance afterwards whether the source value is defined,
\* undefined or absent; when that value has a merge and the source value is
\* defined, merge calls existing.merge(sourceValue) once and assigns nothing.
C8_MergeKeepsPopulatedSlots ==
    Within => \A b \in Bags, source \in MergeIn, cb \in CallbackIn :
        LET r == merge(Cur, b, source, cb)
        IN ~r.overflow =>
           \A n \in Registered(b) :
              defined(stored[b][n]) =>
                 /\ Get(r, b, n) = stored[b][n]
                 /\ r.sub[b][n] = subscription[b][n]
                 /\ IF hasMerge(Cur, stored[b][n]) /\ defined(SourceValue(source, n))
                    THEN /\ Cardinality(MergeCalls(r, n)) = 1
                         /\ \A i \in MergeCalls(r, n) :
                               r.mergeLog[i] = <<n, stored[b][n], SourceValue(source, n)>>
                    ELSE MergeCalls(r, n) = {}

\* A merge delegated to the merge of a member the target already held, and
\* the target still holds that member.
C8_Witness ==
    /\ last.op = "merge" /\ last.err = "none" /\ last.merges >= 1
    /\ \E n \in Registered(last.bag) : hasMerge(Cur, stored[last.bag][n])

\* Equality of two slot values, stated from the members' fields.
SameValue(l, r) ==
    \/ l = r
    \/ /\ l[1] = "prop" /\ r[1] = "prop"
       /\ val[l[2]] = val[r[2]] /\ isConst[l[2]] = isConst[r[2]] /\ caps[l[2]] = caps[r[2]]

\* C9: a.equals(b) is true iff a and b are the same instance, or b is a
\* PropertyBag with the same set of registered names whose values are
\* pairwise equal; the order of the names does not matter, and registering
\* one more member on either bag makes the result false.
C9_EqualsComparesNameSets ==
    \A a \in Bags :
        /\ ~equals(Cur, a, NotABag)
        /\ \A b \in Bags :
              /\ equals(Cur, a, b) <=>
                    \/ a = b
                    \/ /\ Registered(a) = Registered(b)
                       /\ \A n \in Registered(a) : SameValue(stored[a][n], stored[b][n])
              /\ (Within /\ a # b /\ equals(Cur, a, b)) =>
                    \A n \in Names \ Registered(a), v \in ValueIn, cb \in CallbackIn :
                       LET r == addProperty(Cur, a, n, v, cb)
                       IN ~equals(r, a, b) /\ ~equals(r, b, a)

\* equals ran on two bags that hold the same two members in different orders.
C9_Witness ==
    /\ last.op = "equals"
    /\ propertyNames["b1"] = <<"a", "b">> /\ propertyNames["b2"] = <<"b", "a">>
    /\ equals(Cur, "b1", "b2") /\ equals(Cur, "b2", "b1")

\* The registered slots of b that hold member p, and the members other than p.
SlotsHolding(b, p) == {n \in Registered(b) : stored[b][n] = Prop(p)}
OtherProps(p) == (1..nprops) \ {p}
\* How often bag b raises when member p raises once: once for each of its
\* slots that listens to p, and as often as a nested bag it listens to.
RECURSIVE Forwards(_, _, _)
Forwards(s, b, p) ==
    LET nested == {n \in Names : isBag(s.sub[b][n])}
        sum[S \in SUBSET nested] ==
            IF S = {} THEN 0
            ELSE LET n == CHOOSE x \in S : TRUE
                 IN Forwards(s, BagOf(s.sub[b][n]), p) + sum[S \ {n}]
    IN Cardinality(Listeners(s, b, p)) + sum[nested]

\* C10 as stated: after a registered slot holding member p is assigned a
\* different member q, a change raised by p does not make the bag raise its
\* notification and a change raised by q does.
C10_OldMemberNeverForwarded ==
    Within => \A b \in Bags, p \in 1..nprops :
        \A n \in SlotsHolding(b, p), q \in OtherProps(p) :
            LET r == Fresh(SetSlot(Cur, b, n, Prop(q)))
            IN /\ memberChanged(r, p).raised[b] = 0
               /\ memberChanged(r, q).raised[b] >= 1

\* C10 amended: after a registered slot n holding member p is assigned a
\* different member q, the slot forwards q and no longer p: a change raised
\* by q makes the bag raise, and a change raised by p makes the bag raise
\* only through the other names that still have a subscription on p or on
\* a nested bag that forwards p, so not at all when there is none.  This
\* holds from every reachable state, so after any number of reassignments.
C10_SlotForwardsLatestOccupant ==
    Within => \A b \in Bags, p \in 1..nprops :
        \A n \in SlotsHolding(b, p), q \in OtherProps(p) :
            LET r == Fresh(SetSlot(Cur, b, n, Prop(q)))
            IN /\ Listeners(r, b, p) = Listeners(Cur, b, p) \ {n}
               /\ n \in Listeners(r, b, q)
               /\ memberChanged(r, q).raised[b] >= 1
               /\ memberChanged(r, p).raised[b] = Forwards(Cur, b, p) - 1
               /\ (Forwards(Cur, b, p) = 1 => memberChanged(r, p).raised[b] = 0)

\* A slot that held member 1 was assigned member 2, no other name of the bag
\* listens to member 1, and the slot now listens to member 2.
C10_Witness ==
    /\ last.op = "assign" /\ last.bag = "b1" /\ last.name = "a"
    /\ stored["b1"]["a"] = Prop(2)
    /\ Listeners(Cur, "b1", 2) = {"a"}
    /\ Listeners(Cur, "b1", 1) = {}
    /\ stored["b2"]["a"] = Prop(1)

\* C11 as stated: every successful addProperty, with or without an initial
\* value, appends the name, assigns the value and raises the notification of
\* the bag exactly once.
C11_AddRaisesExactlyOnce ==
    Within => \A b \in Bags : \A n \in Names \ Registered(b) :
        \A v \in ValueIn \cup BagValueIn(b), cb \in CallbackIn :
            LET r == addProperty(Cur, b, n, v, cb)
            IN ~r.overflow =>
               /\ r.err = "none"
               /\ hasProperty(r, b, n)
               /\ r.raised[b] = 1

\* C11 amended: every successful addProperty appends the name, assigns the
\* initial value when one is given, and ends by raising the notification of
\* the bag once.  Without an initial value that is the only notification;
\* with one, the assignment through the slot raises one more before it when
\* the value differs from what the storage of the slot held, so the call
\* raises twice when it puts a new value into the slot.
C11_AddRaisesLast ==
    Within => \A b \in Bags : \A n \in Names \ Registered(b) :
        \A v \in ValueIn \cup BagValueIn(b), cb \in CallbackIn :
            LET r == addProperty(Cur, b, n, v, cb)
            IN ~r.overflow =>
               /\ r.err = "none"
               /\ r.names[b] = Append(propertyNames[b], n)
               /\ (defined(v) => defined(Get(r, b, n)))
               /\ r.raised[b] =
                     IF defined(v) /\ r.stored[b][n] # stored[b][n] THEN 2 ELSE 1
               /\ (~defined(v) => r.raised[b] = 1)

\* A name was registered with a member as its initial value and the bag
\* raised its notification twice during the call.
C11_Witness ==
    /\ last.op = "addProperty" /\ last.err = "none"
    /\ last.name \in Registered(last.bag)
    /\ isProp(stored[last.bag][last.name])
    /\ last.raised[last.bag] = 2

\* C12: a successful removeProperty(n) detaches the subscription of the
\* slot: afterwards a change raised by the member that occupied it does not
\* make the bag raise its notification, and no name that is not registered
\* has an active subscription.
C12_RemoveDetaches ==
    /\ \A b \in Bags : \A n \in Names \ Registered(b) : subscription[b][n] = Undefined
    /\ Within => \A b \in Bags : \A n \in Registered(b) :
          LET r == Fresh(removeProperty(Cur, b, n))
          IN /\ r.err = "none"
             /\ r.sub[b][n] = Undefined
             /\ \A p \in 1..nprops :
                   (stored[b][n] = Prop(p) /\ Listeners(Cur, b, p) = {n})
                      => memberChanged(r, p).raised[b] = 0

\* C13: in every reachable state the registered names of a bag contain no
\* duplicate, whatever registrations, removals, assignments and merges (from
\* a plain object, from the other bag, from the bag itself) led to it.
C13_NoDuplicateNames ==
    \A b \in Bags :
        \A i \in 1..Len(propertyNames[b]), j \in 1..Len(propertyNames[b]) :
            i # j => propertyNames[b][i] # propertyNames[b][j]

\* A merge ran over a bag that already had one of the source's names
\* registered with a member, and the bag lists two different names.
C13_Witness ==
    /\ last.op = "merge" /\ last.err = "none" /\ last.merges >= 1
    /\ Len(propertyNames[last.bag]) = 2
    /\ Cardinality(Registered(last.bag)) = 2

\* The member a slot value can be subscribed to: the value when it is a
\* member, nothing when the slot is unset or holds a raw value.
Occupant(v) == IF isMember(v) THEN v ELSE Undefined

\* C14 as stated: every registered name has exactly one active subscription,
\* and it is on the value that occupies the slot now.
C14_EveryNameSubscribed ==
    \A b \in Bags : \A n \in Registered(b) :
        /\ subscription[b][n] # Undefined
        /\ subscription[b][n] = stored[b][n]

\* C14 amended: every registered name has at most one active subscription,
\* and it is on the member that occupies the slot now, never on a previous
\* occupant: exactly one when the slot holds a member, none when the slot
\* is unset or holds a raw value.  An assignment through the slot moves it
\* to the new occupant.
C14_SubscriptionFollowsOccupant ==
    /\ \A b \in Bags : \A n \in Registered(b) :
          subscription[b][n] = Occupant(stored[b][n])
    /\ Within => \A b \in Bags : \A n \in Registered(b) :
          \A v \in ValueIn \cup BagValueIn(b) :
          LET r == SetSlot(Cur, b, n, v)
          IN ~r.overflow => r.sub[b][n] = Occupant(r.stored[b][n])

\* A slot that was subscribed to one member was assigned another one and is
\* subscribed to it, while another registered slot of the bag holds a raw
\* value and has no subscription.
C14_Witness ==
    /\ last.op = "assign" /\ last.err = "none" /\ last.name \in Registered(last.bag)
    /\ stored[last.bag][last.name] = Prop(2)
    /\ subscription[last.bag][last.name] = Prop(2)
    /\ \E m \in Registered(last.bag) :
          stored[last.bag][m] = RawTwo /\ subscription[last.bag][m] = Undefined
    /\ last.raised[last.bag] = 1

\* Member k of execution state r has the content of member i.
SameContent(r, k, i) ==
    r.caps[k] = caps[i] /\ r.val[k] = val[i] /\ r.const[k] = isConst[i]

\* C16: when merge fills an empty target slot from a source value that has
\* both merge and clone, the slot holds a new member with the content of the
\* source value and not the source's instance, so a later change of the
\* source's member does not show through the target; when the source value
\* lacks merge or clone the slot holds the very same reference, or the
\* member the callback of the slot wrapped a raw value in.
C16_MergeClonesOrShares ==
    Within => \A b \in Bags, source \in MergeIn, cb \in CallbackIn :
        LET r == merge(Cur, b, source, cb)
        IN ~r.overflow =>
           \A n \in SourceNames(source) :
              LET sv == SourceValue(source, n)
                  tv == Get(r, b, n)
              IN (~defined(Get(Cur, b, n)) /\ defined(sv)) =>
                 IF hasMerge(Cur, sv) /\ hasClone(Cur, sv)
                 THEN /\ isProp(tv) /\ tv # sv
                      /\ tv[2] \in (nprops + 1)..r.nprops
                      /\ SameContent(r, tv[2], sv[2])
                      /\ sourceGet(r, source, n) = sv
                      /\ flipConstant(r, sv[2]).const[tv[2]] = r.const[tv[2]]
                 ELSE IF isMember(sv) \/ r.desc[b][n] # WrapCallback
                 THEN tv = sv
                 ELSE /\ isProp(tv)
                      /\ tv[2] \in (nprops + 1)..r.nprops
                      /\ r.val[tv[2]] = sv[2]

\* A merge from the other bag filled an empty slot with a clone of the
\* member the other bag holds under the same name.
C16_Witness ==
    /\ last.op = "merge" /\ last.err = "none" /\ nprops = 3
    /\ \E n \in Registered(last.bag) : \E o \in Bags \ {last.bag} :
          /\ stored[last.bag][n] = Prop(3)
          /\ stored[o][n] = Prop(2)
          /\ n \in Registered(o)
          /\ caps[3] = {"merge", "clone"}

\* C18: removeProperty deletes the slot together with its value: after
\* removeProperty(n) of a name that held a value and addProperty(n) without
\* an initial value, the slot is unset, getValue yields undefined for n, and
\* a later merge treats the slot as empty and fills it from the source.
C18_RemoveDeletesValue ==
    Within => \A b \in Bags : \A n \in Registered(b) :
        defined(stored[b][n]) =>
            LET r1 == Fresh(removeProperty(Cur, b, n))
                r2 == Fresh(addProperty(r1, b, n, Undefined, NoCallback))
                r3 == merge(r2, b, PlainSource(<<n>>, [NoVals EXCEPT ![n] = RawOne]), NoCallback)
            IN /\ r2.err = "none"
               /\ ~defined(Get(r2, b, n))
               /\ getValue(r2, b, Time(0)).value[n] = Undefined
               /\ Get(r3, b, n) = RawOne

\* C19: equals is symmetric on the bags of every reachable state:
\* a.equals(b) and b.equals(a) give the same answer (the equality of two
\* members being symmetric).
C19_EqualsSymmetric ==
    /\ \A l \in Bags, r \in Bags :
          \A n \in Names : PropertyEquals(Cur, stored[l][n], stored[r][n])
                              <=> PropertyEquals(Cur, stored[r][n], stored[l][n])
    /\ \A l \in Bags, r \in Bags : equals(Cur, l, r) <=> equals(Cur, r, l)

\* equals ran on two bags of which one has every name of the other, with
\* equal values, and one name more: it is false in both directions.
C19_Witness ==
    /\ last.op = "equals"
    /\ \E l \in Bags, r \in Bags :
          /\ Registered(l) # {}
          /\ Registered(l) \subseteq Registered(r) /\ Registered(l) # Registered(r)
          /\ \A n \in Registered(l) : SameValue(stored[l][n], stored[r][n])
          /\ ~equals(Cur, l, r) /\ ~equals(Cur, r, l)

\* The bags that hold bag o as the value of a registered name.
Outer(o) == {b \in Bags : \E n \in Registered(b) : stored[b][n] = BagRef(o)}

\* C15: the bag raises its notification whenever its set of names changes
\* (every successful addProperty and removeProperty, every name merge
\* registers) and whenever the value of a registered slot raises its own
\* notification, also when that value is a nested PropertyBag: whatever
\* makes the nested bag raise makes the bag that holds it raise as often.
C15_RaisesOnEveryChange ==
    Within => \A b \in Bags :
        /\ \A n \in Names \ Registered(b), cb \in CallbackIn :
              \A v \in ValueIn \cup BagValueIn(b) :
                 LET r == addProperty(Cur, b, n, v, cb)
                 IN ~r.overflow => r.raised[b] >= 1
        /\ \A n \in Registered(b) : removeProperty(Cur, b, n).raised[b] >= 1
        /\ \A source \in MergeIn, cb \in CallbackIn :
              LET r == merge(Cur, b, source, cb)
              IN ~r.overflow =>
                 r.raised[b] >= Cardinality(Range(r.names[b]) \ Registered(b))
        /\ \A n \in Registered(b), p \in 1..nprops :
              stored[b][n] = Prop(p) => memberChanged(Cur, p).raised[b] >= 1
        /\ \A o \in Outer(b) :
              /\ raiseEvent(Cur, b).raised[o] >= 1
              /\ \A n \in Names, cb \in CallbackIn, v \in ValueIn :
                    LET r == addProperty(Cur, b, n, v, cb)
                    IN ~r.overflow => r.raised[o] >= r.raised[b]
              /\ \A n \in Names : removeProperty(Cur, b, n).raised[o]
                                     >= removeProperty(Cur, b, n).raised[b]
              /\ \A n \in Registered(b), v \in ValueIn :
                    LET r == SetSlot(Cur, b, n, v)
                    IN ~r.overflow => r.raised[o] >= r.raised[b]
              /\ \A source \in MergeIn, cb \in CallbackIn :
                    LET r == merge(Cur, b, source, cb)
                    IN ~r.overflow => r.raised[o] >= r.raised[b]
              /\ \A p \in 1..nprops :
                    memberChanged(Cur, p).raised[o] >= memberChanged(Cur, p).raised[b]

\* A name was registered on a bag that another bag holds as the value of a
\* registered name, and the bag that holds it raised its notification too.
C15_Witness ==
    /\ last.op = "addProperty" /\ last.err = "none"
    /\ last.bag \in Bags
    /\ \E o \in Outer(last.bag) : o # last.bag /\ last.raised[o] >= 1
    /\ last.raised[last.bag] >= 1

\* The execution state without the listener of the host.
Quiet(s) == [s EXCEPT !.listener = NoListener]
\* The registry of bag b is consistent in s: no name is listed twice, every
\* listed name has its accessor, and no name that is not listed has a
\* subscription.
Consistent(s, b) ==
    /\ Cardinality(Range(s.names[b])) = Len(s.names[b])
    /\ \A n \in Range(s.names[b]) : s.desc[b][n] # NoAccessor
    /\ \A n \in Names \ Range(s.names[b]) : s.sub[b][n] = Undefined
\* The operation that ends in q without the listener ends in r with it:
\* where it completes without it, it completes with it and leaves the
\* registry of b consistent.
Tolerated(q, r, b) ==
    (~q.overflow /\ ~r.overflow /\ q.err = "none")
       => (r.err = "none" /\ Consistent(r, b))

\* C17: when a listener of the bag's notification calls removeProperty on
\* the bag while a notification raised inside addProperty, an assignment to
\* a slot or merge is delivered, the outer operation still completes without
\* error and leaves the registry consistent: no duplicate name, only names
\* that have a slot, no subscription for a name that is not registered.
C17_ListenerMayRemove ==
    (ops < MaxOps /\ Alive /\ listener # NoListener /\ Consistent(Cur, listener.on)) =>
        LET b == listener.on
        IN /\ \A n \in Names, cb \in CallbackIn : \A v \in ValueIn \cup BagValueIn(b) :
                 Tolerated(addProperty(Quiet(Cur), b, n, v, cb),
                           addProperty(Cur, b, n, v, cb), b)
           /\ \A n \in Registered(b) : \A v \in ValueIn \cup BagValueIn(b) :
                 Tolerated(SetSlot(Quiet(Cur), b, n, v), SetSlot(Cur, b, n, v), b)
           /\ \A source \in MergeIn, cb \in CallbackIn :
                 Tolerated(merge(Quiet(Cur), b, source, cb),
                           merge(Cur, b, source, cb), b)

====
